---- MODULE Spec2Model ----
(***************************************************************************)
(* bedrock-tokenized-cache: the read/write protocol of lib/cache.js        *)
(* between the in-memory promise cache (ENTRY_CACHE, an LruCache of        *)
(* memoized fetches) and the durable collection 'tokenized-cache-entry'.   *)
(*                                                                         *)
(* One process is modelled.  Its callers run get() and upsert() as async   *)
(* functions: every `await` of the source ends an atomic step, and the     *)
(* steps of different calls interleave freely.  Time is a discrete clock   *)
(* whose unit is 24 hours: Date.now() is read as a whole number of units,  *)
(* and any number of steps may share one reading.                          *)
(***************************************************************************)
EXTENDS Integers, Sequences, FiniteSets, TLC

\* ------------------------------------------------------------------ bounds
MaxTime == 2
MaxRetries == 2

\* ------------------------------------------------------ program constants
\* cfg.caches.entry.maxAge, 24 hours
MaxAge == 1
\* expireAfterSeconds of the TTL index, 24 hours
GracePeriod == 1
\* new Date(now + undefined), an Invalid Date: the database keeps it as a
\* date before every reading of the clock
InvalidDate == -2

\* --------------------------------------------------------------- universes
Callers == {"c1", "c2"}
CallerNo(c) == IF c = "c1" THEN 1 ELSE 2
FetchIds == {1, 2, 3}
Ids == {"a", "b"}
Values == {"v1", "v2"}
Ttls == {0, 2}
Handles == {1}
NoFetch == 0
Undef == "undefined"

\* ------------------------------------------------------------ tokenization
\* The ids a caller may pass are JavaScript strings, sequences of UTF-16
\* code units.  The model names five of them: 'a', 'b', the emoji U+1F600
\* (a surrogate pair) and two strings made of one unpaired surrogate,
\* '\uD800' and '\uD801', which assert.string (line 255) accepts like any
\* other string.
IllFormedIds == {"uD800", "uD801"}
Plaintexts == Ids \cup {"U+1F600"} \cup IllFormedIds

CodeUnits(id) ==
  CASE id = "a" -> <<97>>
    [] id = "b" -> <<98>>
    [] id = "U+1F600" -> <<55357, 56832>>
    [] id = "uD800" -> <<55296>>
    [] id = "uD801" -> <<55297>>

IsHighSurrogate(u) == u >= 55296 /\ u <= 56319
IsLowSurrogate(u) == u >= 56320 /\ u <= 57343

\* The UTF-8 bytes of one Unicode scalar value.
Utf8Bytes(cp) ==
  IF cp < 128 THEN <<cp>>
  ELSE IF cp < 2048 THEN <<192 + (cp \div 64), 128 + (cp % 64)>>
  ELSE IF cp < 65536
  THEN <<224 + (cp \div 4096), 128 + ((cp \div 64) % 64), 128 + (cp % 64)>>
  ELSE <<240 + (cp \div 262144), 128 + ((cp \div 4096) % 64),
         128 + ((cp \div 64) % 64), 128 + (cp % 64)>>

\* TextEncoder.encode on the code units of a string: a surrogate pair is
\* one scalar value, and every unpaired surrogate is replaced by U+FFFD
\* (65533) before encoding.
RECURSIVE Utf8(_)
Utf8(units) ==
  IF units = <<>> THEN <<>>
  ELSE IF /\ IsHighSurrogate(Head(units)) /\ Len(units) > 1
          /\ IsLowSurrogate(units[2])
  THEN Utf8Bytes(65536 + (Head(units) - 55296) * 1024 + (units[2] - 56320))
         \o Utf8(Tail(Tail(units)))
  ELSE IF IsHighSurrogate(Head(units)) \/ IsLowSurrogate(Head(units))
  THEN Utf8Bytes(65533) \o Utf8(Tail(units))
  ELSE Utf8Bytes(Head(units)) \o Utf8(Tail(units))

\* TEXT_ENCODER.encode(value) (lines 15, 318)
TextEncode(id) == Utf8(CodeUnits(id))

\* hmac.sign({data}) (line 319).  The hmac belongs to the tokenizer that the
\* caller passes or the key provider hands out: it is an input of this
\* module, taken to be a function of the handle and of all the bytes of the
\* data, one byte wide here.
RECURSIVE MacFold(_, _)
MacFold(data, acc) ==
  IF data = <<>> THEN acc
  ELSE MacFold(Tail(data), (acc * 31 + Head(data) * 7) % 256)

HmacSign(h, data) == <<MacFold(data, (h * 13) % 256)>>

\* _hmacString: the 2-byte tag 18, 32 followed by the signature.
HmacString(h, id) == <<18, 32>> \o HmacSign(h, TextEncode(id))

TokenizedIds == {HmacString(h, id) : h \in Handles, id \in Ids}

\* The entry the concurrent callers contend for.
CoreTokens == {HmacString(h, "a") : h \in Handles}

B64Alphabet ==
  << "A","B","C","D","E","F","G","H","I","J","K","L","M","N","O","P",
     "Q","R","S","T","U","V","W","X","Y","Z","a","b","c","d","e","f",
     "g","h","i","j","k","l","m","n","o","p","q","r","s","t","u","v",
     "w","x","y","z","0","1","2","3","4","5","6","7","8","9","-","_" >>

\* A key that does not depend on the tokenized id.
CacheKeyConstant(t) == << "A", "A", "A", "A" >>

\* tokenizedId.toString('base64url') for a 3-byte buffer: four 6-bit digits.
CacheKey(t) ==
  LET n == t[1] * 65536 + t[2] * 256 + t[3]
  IN  << B64Alphabet[(n \div 262144) + 1],
         B64Alphabet[((n \div 4096) % 64) + 1],
         B64Alphabet[((n \div 64) % 64) + 1],
         B64Alphabet[(n % 64) + 1] >>

CacheKeys == {CacheKey(t) : t \in TokenizedIds}

\* ----------------------------------------------------------------- records
\* A database record {entry: {tokenizedId, value, expires}, meta: {created,
\* updated}}, flattened; NoRec stands for null / undefined.
NoRec ==
  [present |-> FALSE, tokenizedId |-> <<>>, value |-> Undef,
   expires |-> 0, created |-> 0, updated |-> 0]

MkRec(t, v, e, c, u) ==
  [present |-> TRUE, tokenizedId |-> t, value |-> v,
   expires |-> e, created |-> c, updated |-> u]

NoResult == [kind |-> "none", rec |-> NoRec, name |-> "", now |-> 0]
ErrResult(n) == [kind |-> "error", rec |-> NoRec, name |-> n, now |-> 0]
RecResult(r, n) == [kind |-> "record", rec |-> r, name |-> "", now |-> n]
ExplainResult == [kind |-> "explain", rec |-> NoRec, name |-> "", now |-> 0]

\* ------------------------------------------------------------------- state
\* clock      Date.now()
\* store      the collection, one document per entry.tokenizedId (unique index)
\* cache      ENTRY_CACHE.cache: key -> the memoized promise and its insert time
\* fetches    the promises returned by _getUncachedEntry, by identity
\* call       each caller's running get() or upsert()
\* last       the call that completed in the latest step, with its result,
\*            or the get that called itself again in the latest step, with
\*            the promise it had found stale
\* current    the tokenizer that tokenizers.getCurrent() resolves to
\* lastWrite  history: per key, the record returned by the upsert whose
\*            updateOne the database executed last, and whether that
\*            updateOne matched a stored document
VARIABLES clock, store, cache, fetches, call, current, lastWrite, last

vars == <<clock, store, cache, fetches, call, current, lastWrite, last>>

\* st: free | finding (findOne sent) | found (findOne answered, rec is the
\* document or NoRec, err its error) | resolved (with rec) | rejected (err).
\* over (history): the clock reading at which another process overwrote the
\* document this fetch had read, NoTime if none did.
NoTime == -1
FreeFetch ==
  [st |-> "free", token |-> <<>>, rec |-> NoRec, err |-> "", over |-> NoTime]
Absent == [p |-> NoFetch, at |-> 0]
\* byTok: the upsert that wrote was given tokenizedId, not id.
NoWrite == [rec |-> NoRec, replaced |-> FALSE, byTok |-> FALSE]

\* The fields from `dirty` on are history, not program state:
\*   dirty     an updateOne ran since the call started, or an upsert that had
\*             written had not yet returned when it started
\*   alone     no other call was running at any time during this call
\*   latest, lastW, slotAfter   store[token], lastWrite[token] and the cache
\*             slot as they were when the call completed
\* matched and refused belong to an updateOne as the database works on it:
\* the document its query matched (0: none), and whether the unique index
\* has refused an insert of it.
IdleCall ==
  [pc |-> "idle", op |-> "none", explain |-> FALSE,
   hasId |-> FALSE, hasTok |-> FALSE, id |-> Undef,
   tokenizer |-> 0, given |-> 0, token |-> <<>>, ttl |-> 0, value |-> Undef,
   p |-> NoFetch, installer |-> FALSE, rec |-> NoRec, result |-> NoResult,
   dirty |-> FALSE, alone |-> TRUE,
   latest |-> NoRec, lastW |-> NoWrite, slotAfter |-> NoFetch,
   matched |-> 0, refused |-> FALSE, retries |-> 0, hasTtl |-> TRUE]

\* The tokenized ids and cache keys of the entries in play.
Tokens == DOMAIN store
Keys == DOMAIN cache

Settled(f) == f.st \in {"resolved", "rejected"}
Running(cr) == cr.pc # "idle"

\* ------------------------------------------------------------ the LruCache
\* lru-cache: an item older than maxAge is dropped by the get()/peek() that
\* meets it, which then answers undefined.
\* A cache whose items never age out.
IsStaleNever(slot) == FALSE

IsStale(slot) == slot.p # NoFetch /\ clock - slot.at > MaxAge

Purge(cch, k) == IF IsStale(cch[k]) THEN [cch EXCEPT ![k] = Absent] ELSE cch

\* ENTRY_CACHE.delete(key)
CacheDelete(cch, k) == [cch EXCEPT ![k] = Absent]

\* A delete that does not look at what the slot holds.
DeleteWhateverIsThere(cch, k, p) == CacheDelete(Purge(cch, k), k)

\* delete only if the slot still holds promise p (peek(key) === promise)
DeleteIfSame(cch, k, p) ==
  LET c1 == Purge(cch, k)
  IN  IF c1[k].p = p THEN CacheDelete(c1, k) ELSE c1

\* Promises nothing refers to any more are collected; their identities are
\* reused only then.
Referenced(nc, nk) ==
  {nk[k].p : k \in DOMAIN nk} \cup
  {nc[c].p : c \in {x \in Callers : nc[x].pc \in {"memo", "peeked"}}}

Collect(nf, nc, nk) ==
  [f \in FetchIds |-> IF f \in Referenced(nc, nk) THEN nf[f] ELSE FreeFetch]

\* A call that completes (pc "done") hands its result to the caller, which
\* is idle again.
NoLast == [who |-> "", r |-> IdleCall, stale |-> NoFetch]

\* The callers whose get, in the step from call to nc, found its record
\* expired and called itself again (line 151).
Retrying(nc) ==
  {c \in Callers : call[c].pc = "peeked" /\ nc[c].pc = "memo"}

\* The step's outcome: the calls nc, the cache nk and the fetches nf it
\* leaves (each worked out once).
Commit(calls, slots, fs) ==
  \E nc \in {calls}, nk \in {slots}, nf \in {fs} :
    /\ call' = [c \in Callers |->
                  IF nc[c].pc = "done" THEN IdleCall ELSE nc[c]]
    /\ last' = IF \E c \in Callers : nc[c].pc = "done"
               THEN LET c == CHOOSE d \in Callers : nc[d].pc = "done"
                    IN  [who |-> c, r |-> nc[c], stale |-> NoFetch]
               ELSE IF Retrying(nc) # {}
               THEN LET c == CHOOSE d \in Callers : d \in Retrying(nc)
                    IN  [who |-> c, r |-> nc[c], stale |-> call[c].p]
               ELSE NoLast
    /\ cache' = nk
    /\ fetches' = Collect(nf, nc, nk)

FreshFetch(fs) == CHOOSE f \in FetchIds :
  /\ fs[f].st = "free"
  /\ \A g \in FetchIds : fs[g].st = "free" => f <= g

\* The call completes with result res; cch is the cache it leaves.
Finish(cr, res, cch) ==
  [IdleCall EXCEPT
     !.pc = "done", !.op = cr.op, !.explain = cr.explain,
     !.hasId = cr.hasId, !.hasTok = cr.hasTok,
     !.id = cr.id, !.tokenizer = cr.tokenizer,
     !.token = cr.token, !.result = res,
     !.installer = cr.installer,
     !.dirty = cr.dirty, !.alone = cr.alone, !.retries = cr.retries,
     !.latest = IF cr.token \in Tokens THEN store[cr.token] ELSE NoRec,
     !.lastW = IF cr.token \in Tokens THEN lastWrite[cr.token]
               ELSE NoWrite,
     !.slotAfter = IF cr.token \in Tokens
                   THEN cch[CacheKey(cr.token)].p ELSE NoFetch]

\* ------------------------------------------------------------------- Init
InitWith(tokens) ==
  /\ clock = 0
  /\ store = [t \in tokens |-> NoRec]
  /\ cache = [k \in {CacheKey(t) : t \in tokens} |-> Absent]
  /\ fetches = [f \in FetchIds |-> FreeFetch]
  /\ call = [c \in Callers |-> IdleCall]
  /\ current = 1
  /\ lastWrite = [t \in tokens |-> NoWrite]
  /\ last = NoLast

Init == InitWith(CoreTokens)

\* ------------------------------------------------------- pure parts of get
\* An argument check that accepts id together with tokenizedId.
ValidateNeitherOnly(hasId, hasTok) ==
  IF ~hasTok /\ ~hasId THEN "EitherRequired" ELSE ""

\* get/upsert lines 120-127 and 187-195: "" when exactly one of id and
\* tokenizedId is given, else the Error that is thrown.
Validate(hasId, hasTok) ==
  IF hasId /\ hasTok THEN "OnlyOneOf"
  ELSE IF ~hasTok /\ ~hasId THEN "EitherRequired"
  ELSE ""

InvalidArgumentNames == {"OnlyOneOf", "EitherRequired"}

\* A get that takes every record for live.
RecordExpiredNever(rec, now) == FALSE

\* get line 147: record.entry.expires < now
RecordExpired(rec, now) == rec.expires < now

\* A lookup that answers whatever document findOne found.
GetUncachedEntryNoExpiry(raw, dbErr, now) ==
  IF dbErr # "" THEN [st |-> "rejected", rec |-> NoRec, err |-> dbErr]
  ELSE IF ~raw.present
  THEN [st |-> "rejected", rec |-> NoRec, err |-> "NotFoundError"]
  ELSE [st |-> "resolved", rec |-> raw, err |-> ""]

\* _getUncachedEntry after findOne answered `raw` (dbErr: findOne threw):
\* a document whose expires is before now counts as missing.
GetUncachedEntry(raw, dbErr, now) ==
  IF dbErr # "" THEN [st |-> "rejected", rec |-> NoRec, err |-> dbErr]
  ELSE LET record == IF raw.present /\ now > raw.expires THEN NoRec ELSE raw
       IN  IF ~record.present
           THEN [st |-> "rejected", rec |-> NoRec, err |-> "NotFoundError"]
           ELSE [st |-> "resolved", rec |-> record, err |-> ""]

\* A memoize that shares only settled promises.
MemoizeStartNoShare(cr, cch, fs) ==
  LET k == CacheKey(cr.token)
      c1 == Purge(cch, k)
      hit == c1[k].p
      f == FreshFetch(fs)
  IN  IF hit # NoFetch /\ Settled(fs[hit])
      THEN [cr |-> [cr EXCEPT !.pc = "memo", !.p = hit, !.installer = FALSE],
            cch |-> c1, fs |-> fs]
      ELSE [cr |-> [cr EXCEPT !.pc = "memo", !.p = f, !.installer = TRUE],
            cch |-> [c1 EXCEPT ![k] = [p |-> f, at |-> clock]],
            fs |-> [fs EXCEPT ![f] = [FreeFetch EXCEPT !.st = "finding",
                                                       !.token = cr.token]]]

\* A memoize that shares only pending promises.
MemoizeStartRefetch(cr, cch, fs) ==
  LET k == CacheKey(cr.token)
      c1 == Purge(cch, k)
      hit == c1[k].p
      f == FreshFetch(fs)
  IN  IF hit # NoFetch /\ ~Settled(fs[hit])
      THEN [cr |-> [cr EXCEPT !.pc = "memo", !.p = hit, !.installer = FALSE],
            cch |-> c1, fs |-> fs]
      ELSE [cr |-> [cr EXCEPT !.pc = "memo", !.p = f, !.installer = TRUE],
            cch |-> [c1 EXCEPT ![k] = [p |-> f, at |-> clock]],
            fs |-> [fs EXCEPT ![f] = [FreeFetch EXCEPT !.st = "finding",
                                                       !.token = cr.token]]]

\* ENTRY_CACHE.memoize({key, fn}) up to its first await: a cached promise is
\* returned as it is, else fn() is called (which sends findOne) and its
\* promise is put in the cache.
MemoizeStart(cr, cch, fs) ==
  LET k == CacheKey(cr.token)
      c1 == Purge(cch, k)
      hit == c1[k].p
      f == FreshFetch(fs)
  IN  IF hit # NoFetch
      THEN [cr |-> [cr EXCEPT !.pc = "memo", !.p = hit, !.installer = FALSE],
            cch |-> c1, fs |-> fs]
      ELSE [cr |-> [cr EXCEPT !.pc = "memo", !.p = f, !.installer = TRUE],
            cch |-> [c1 EXCEPT ![k] = [p |-> f, at |-> clock]],
            fs |-> [fs EXCEPT ![f] = [FreeFetch EXCEPT !.st = "finding",
                                                       !.token = cr.token]]]

\* A get that memoizes in explain mode too.
GetBodyIgnoreExplain(cr, cch, fs) == MemoizeStart(cr, cch, fs)

\* get lines 132-141, once tokenizedId is known.
GetBody(cr, cch, fs) ==
  IF cr.explain
  THEN [cr |-> [cr EXCEPT !.pc = "explain"], cch |-> cch, fs |-> fs]
  ELSE MemoizeStart(cr, cch, fs)

\* An upsert whose entry expires at once, whatever its ttl.
UpsertBodyNoTtl(cr) ==
  LET now == clock
      rec == MkRec(cr.token, cr.value, now, now, now)
  IN  [cr EXCEPT !.rec = rec,
                 !.pc = IF cr.explain THEN "explain" ELSE "update"]

\* new Date(now + ttl) (line 204); ttl is undefined when hasTtl is FALSE.
Expires(now, hasTtl, ttl) == IF hasTtl THEN now + ttl ELSE InvalidDate

\* upsert lines 201-233, once tokenizedId is known: the record is built from
\* one reading of the clock; updateOne (or the explain cursor) is awaited.
UpsertBody(cr) ==
  LET now == clock
      rec == MkRec(cr.token, cr.value, Expires(now, cr.hasTtl, cr.ttl),
                   now, now)
  IN  [cr EXCEPT !.rec = rec,
                 !.pc = IF cr.explain THEN "explain" ELSE "update"]

Body(cr, cch, fs) ==
  IF cr.op = "get" THEN GetBody(cr, cch, fs)
  ELSE [cr |-> UpsertBody(cr), cch |-> cch, fs |-> fs]

\* An update whose $set lacks entry.expires.
UpdateOneNoExpires(doc, rec) ==
  IF doc.present
  THEN [doc EXCEPT !.value = rec.value, !.created = rec.created,
                   !.updated = rec.updated]
  ELSE rec

\* An update that sets meta.created on insert only.
UpdateOneKeepCreated(doc, rec) ==
  IF doc.present
  THEN [doc EXCEPT !.expires = rec.expires, !.value = rec.value,
                   !.updated = rec.updated]
  ELSE rec

\* updateOne(query, {$set, $setOnInsert}, {upsert: true}) on the document
\* matched by entry.tokenizedId (NoRec: none matched, one is inserted).
UpdateOne(doc, rec) ==
  LET set == [doc EXCEPT !.expires = rec.expires, !.value = rec.value,
                         !.created = rec.created, !.updated = rec.updated]
  IN  IF doc.present THEN set
      ELSE [set EXCEPT !.present = TRUE, !.tokenizedId = rec.tokenizedId]

\* An invalidation that drops only what has aged out.
InvalidateIfAged(cch, k) == Purge(cch, k)

\* upsert lines 238-240: clear any in-memory cache entry.
Invalidate(cch, k) == CacheDelete(cch, k)

\* ----------------------------------------------------------------- actions
\* The ways a call names its entry: id and/or tokenizedId given or not, a
\* tokenizer supplied (tz, else 0), explain mode.  Arguments a call does not
\* read are left out.
ArgForms ==
  {a \in [hasId : BOOLEAN, hasTok : BOOLEAN, tz : {0} \cup Handles,
          explain : BOOLEAN] : (~a.hasId \/ a.hasTok) => a.tz = 0}

\* Calls that address the entry by tokenizedId.
CoreForms == {a \in ArgForms : ~a.explain /\ a.hasTok /\ ~a.hasId}

\* A tokenizeId that asks the provider whatever it was given.
AsksProviderAlways(tokenizer) == TRUE

\* tokenizeId line 259: `if(!tokenizer)`, the provider's current tokenizer
\* is asked for only when none was given (0).
AsksProvider(tokenizer) == tokenizer = 0

\* A caller calls get(...) or upsert(...): the argument checks, and whatever
\* runs before the first await.  A call by id awaits tokenizeId, which
\* awaits tokenizers.getCurrent() (line 260) or, given a tokenizer, calls
\* hmac.sign with it at once and awaits that (lines 267, 319).
CallWith(c, forms) ==
  /\ call[c].pc = "idle"
  \* callers are interchangeable: the first idle one takes the call
  /\ \A d \in Callers : call[d].pc = "idle" => CallerNo(c) <= CallerNo(d)
  /\ \E op \in {"get", "upsert"}, a \in forms,
        id \in {i \in Ids : \E h \in Handles : HmacString(h, i) \in Tokens},
        tok \in Tokens, ttl \in Ttls, value \in Values :
       /\ (op = "get") => (ttl = 0 /\ value = "v1")
       /\ LET hasId == a.hasId
              hasTok == a.hasTok
              tz == a.tz
              explain == a.explain
              cr == [IdleCall EXCEPT
                       !.op = op, !.explain = explain,
                       !.hasId = hasId, !.hasTok = hasTok,
                       !.id = IF hasId THEN id ELSE Undef,
                       !.token = IF hasTok THEN tok ELSE <<>>,
                       !.tokenizer = tz,
                       !.ttl = IF op = "upsert" THEN ttl ELSE 0,
                       !.value = IF op = "upsert" THEN value ELSE Undef,
                       !.dirty = \E d \in Callers : call[d].pc = "updated",
                       !.alone = \A d \in Callers \ {c} : ~Running(call[d])]
              others == [d \in Callers |->
                           IF Running(call[d])
                           THEN [call[d] EXCEPT !.alone = FALSE] ELSE call[d]]
              bad == Validate(hasId, hasTok)
              b == Body(cr, cache, fetches)
          IN  IF bad # ""
              THEN Commit([others EXCEPT
                             ![c] = Finish(cr, ErrResult(bad), cache)],
                          cache, fetches)
              ELSE IF ~hasTok
              THEN Commit([others EXCEPT ![c] =
                             [cr EXCEPT !.pc = IF AsksProvider(tz)
                                              THEN "tokenize" ELSE "sign"]],
                          cache, fetches)
              ELSE Commit([others EXCEPT ![c] = b.cr], b.cch, b.fs)
  /\ UNCHANGED <<clock, store, current, lastWrite>>

Call(c) == CallWith(c, CoreForms)
CallApi(c) == CallWith(c, ArgForms)

\* tokenizers.getCurrent() answers (line 260): the tokenizer of the call is
\* the provider's current one from here on; hmac.sign is called with it in
\* the same callback (lines 262-267, 318-319) and awaited.
GotCurrent(c) ==
  /\ call[c].pc = "tokenize"
  /\ Commit([call EXCEPT ![c] = [@ EXCEPT !.pc = "sign",
                                          !.tokenizer = current]],
            cache, fetches)
  /\ UNCHANGED <<clock, store, current, lastWrite>>

\* hmac.sign has answered and _hmacString and tokenizeId have returned
\* (lines 319-323, 267-268: they touch nothing shared): get or upsert
\* resumes after line 129 / 197 and runs its body up to its next await.
Tokenized(c) ==
  /\ call[c].pc = "sign"
  /\ LET cr0 == [call[c] EXCEPT
                  !.token = HmacString(call[c].tokenizer, call[c].id)]
         b == Body(cr0, cache, fetches)
     IN  Commit([call EXCEPT ![c] = b.cr], b.cch, b.fs)
  /\ UNCHANGED <<clock, store, current, lastWrite>>

\* tokenizers.getCurrent() rejects: tokenizeId, and the call, reject with it.
ProviderFail(c) ==
  /\ call[c].pc = "tokenize"
  /\ Commit([call EXCEPT ![c] =
               Finish(@, ErrResult("KeyProviderFailure"), cache)],
            cache, fetches)
  /\ UNCHANGED <<clock, store, current, lastWrite>>

\* hmac.sign rejects (line 319): nothing catches it, and _hmacString,
\* tokenizeId and the call reject with it, tokenizer given or not.
SignFail(c) ==
  /\ call[c].pc = "sign"
  /\ Commit([call EXCEPT ![c] = Finish(@, ErrResult("SignFailure"), cache)],
            cache, fetches)
  /\ UNCHANGED <<clock, store, current, lastWrite>>

\* The database executes a findOne.
DbFind(f) ==
  /\ fetches[f].st = "finding"
  /\ fetches' = [fetches EXCEPT ![f] = [@ EXCEPT !.st = "found",
                                        !.rec = store[fetches[f].token]]]
  /\ last' = NoLast
  /\ UNCHANGED <<clock, store, cache, call, current, lastWrite>>

\* findOne fails (connectivity, driver).
DbFindFail(f) ==
  /\ fetches[f].st = "finding"
  /\ fetches' = [fetches EXCEPT ![f] = [@ EXCEPT !.st = "found",
                                        !.err = "StoreFailure"]]
  /\ last' = NoLast
  /\ UNCHANGED <<clock, store, cache, call, current, lastWrite>>

\* _getUncachedEntry resumes after findOne and settles its promise.
FetchSettle(f) ==
  /\ fetches[f].st = "found"
  /\ LET r == GetUncachedEntry(fetches[f].rec, fetches[f].err, clock)
     IN  fetches' = [fetches EXCEPT ![f] = [@ EXCEPT !.st = r.st,
                        !.rec = r.rec, !.err = r.err]]
  /\ last' = NoLast
  /\ UNCHANGED <<clock, store, cache, call, current, lastWrite>>

\* The catch of memoize, which runs in the call that installed promise p
\* when p rejects.  memoize is that of @digitalbazaar/lru-memoize, whose
\* code is not part of this source: its catch removes the key either
\* whatever the slot holds by then, or only if the slot still holds p.  The
\* caches it can leave are both kept.
MemoizeCatch(cch, k, p) == {CacheDelete(cch, k), DeleteIfSame(cch, k, p)}

\* A memoize that leaves a rejected promise in the cache.
AfterMemoizeNoCleanup(cr, cch, fs) ==
  LET k == CacheKey(cr.token)
      f == fs[cr.p]
      c1 == Purge(cch, k)
  IN  IF f.st = "rejected"
      THEN IF cr.installer
           THEN {[cr |-> [cr EXCEPT !.pc = "rethrow", !.p = NoFetch,
                                    !.result = ErrResult(f.err)],
                  cch |-> cch, fs |-> fs]}
           ELSE {[cr |-> Finish(cr, ErrResult(f.err), cch), cch |-> cch,
                  fs |-> fs]}
      ELSE {[cr |-> [cr EXCEPT !.pc = "peeked", !.p = c1[k].p], cch |-> c1,
             fs |-> fs]}

\* The promise a get awaits in memoize has settled: the outcomes of the
\* step in which get (or memoize within it) resumes.
\* Rejected: in the call whose memoize created the promise, memoize's catch
\* runs (MemoizeCatch) and throws: get's `await memoize` of line 141
\* rejects in a later callback (pc "rethrow", the error kept in result).
\* In a call that was handed the cached promise, memoize has nothing left
\* to run and get rejects.
\* Resolved: get goes on to line 142 and peeks the slot, then awaits what
\* the slot holds (line 143).  An empty slot gives undefined and
\* `await undefined` suspends get all the same (p = NoFetch).
AfterMemoize(cr, cch, fs) ==
  LET k == CacheKey(cr.token)
      f == fs[cr.p]
      c1 == Purge(cch, k)
  IN  IF f.st = "rejected"
      THEN IF cr.installer
           THEN {[cr |-> [cr EXCEPT !.pc = "rethrow", !.p = NoFetch,
                                    !.result = ErrResult(f.err)],
                  cch |-> nk, fs |-> fs] : nk \in MemoizeCatch(cch, k, cr.p)}
           ELSE {[cr |-> Finish(cr, ErrResult(f.err), cch), cch |-> cch,
                  fs |-> fs]}
      ELSE {[cr |-> [cr EXCEPT !.pc = "peeked", !.p = c1[k].p], cch |-> c1,
             fs |-> fs]}

GetPeek(c) ==
  /\ call[c].pc = "memo"
  /\ Settled(fetches[call[c].p])
  /\ \E r \in AfterMemoize(call[c], cache, fetches) :
         Commit([call EXCEPT ![c] = r.cr], r.cch, r.fs)
  /\ UNCHANGED <<clock, store, current, lastWrite>>

\* get resumes after memoize has thrown: line 141 rethrows and get rejects
\* with the error of the fetch.
GetRethrow(c) ==
  /\ call[c].pc = "rethrow"
  /\ Commit([call EXCEPT ![c] = Finish(@, call[c].result, cache)],
            cache, fetches)
  /\ UNCHANGED <<clock, store, current, lastWrite>>

\* What line 143 awaits has settled: undefined (an empty slot) at once,
\* a promise when it resolves or rejects.
Awaited(cr, fs) == IF cr.p = NoFetch THEN TRUE ELSE Settled(fs[cr.p])

\* A get that takes every record for expired and calls itself again.
AfterPromiseAlwaysRetry(cr, cch, fs) ==
  LET k == CacheKey(cr.token)
      c1 == DeleteIfSame(cch, k, cr.p)
  IN  IF cr.p = NoFetch
      THEN [cr |-> Finish(cr, ErrResult("TypeError"), cch), cch |-> cch,
            fs |-> fs]
      ELSE IF fs[cr.p].st = "rejected"
      THEN [cr |-> Finish(cr, ErrResult(fs[cr.p].err), cch), cch |-> cch,
            fs |-> fs]
      ELSE GetBody([cr EXCEPT !.explain = FALSE], c1, fs)

\* A get that calls itself again without the compare-and-delete.
AfterPromiseNoRemoval(cr, cch, fs) ==
  LET now == clock
  IN  IF cr.p = NoFetch
      THEN [cr |-> Finish(cr, ErrResult("TypeError"), cch), cch |-> cch,
            fs |-> fs]
      ELSE IF fs[cr.p].st = "rejected"
      THEN [cr |-> Finish(cr, ErrResult(fs[cr.p].err), cch), cch |-> cch,
            fs |-> fs]
      ELSE IF RecordExpired(fs[cr.p].rec, now)
      THEN GetBody([cr EXCEPT !.explain = FALSE], cch, fs)
      ELSE [cr |-> Finish(cr, RecResult(fs[cr.p].rec, now), cch), cch |-> cch,
            fs |-> fs]

\* get resumes after `await promise` (lines 143-154).  With record
\* undefined (the slot was empty at line 142) line 146 reads the clock and
\* line 147 throws a TypeError on record.entry; a rejection is rethrown; an
\* expired record is removed from the cache if the slot still holds this
\* promise, and get({tokenizedId}) is called again; a live record is
\* returned.
AfterPromise(cr, cch, fs) ==
  LET k == CacheKey(cr.token)
      now == clock
      c1 == DeleteIfSame(cch, k, cr.p)
  IN  IF cr.p = NoFetch
      THEN [cr |-> Finish(cr, ErrResult("TypeError"), cch), cch |-> cch,
            fs |-> fs]
      ELSE IF fs[cr.p].st = "rejected"
      THEN [cr |-> Finish(cr, ErrResult(fs[cr.p].err), cch), cch |-> cch,
            fs |-> fs]
      ELSE IF RecordExpired(fs[cr.p].rec, now)
      THEN GetBody([cr EXCEPT !.explain = FALSE], c1, fs)
      ELSE [cr |-> Finish(cr, RecResult(fs[cr.p].rec, now), cch), cch |-> cch,
            fs |-> fs]

GetCheck(c) ==
  /\ call[c].pc = "peeked"
  /\ Awaited(call[c], fetches)
  /\ LET r == AfterPromise(call[c], cache, fetches)
     IN  Commit([call EXCEPT ![c] = r.cr], r.cch, r.fs)
  /\ UNCHANGED <<clock, store, current, lastWrite>>

\* The database executes an upsert's updateOne.
DbUpdate(c) ==
  /\ call[c].pc = "update"
  /\ LET t == call[c].token
     IN  /\ store' = [store EXCEPT ![t] = UpdateOne(@, call[c].rec)]
         /\ lastWrite' = [lastWrite EXCEPT ![t] =
                            [rec |-> call[c].rec,
                             replaced |-> store[t].present,
                             byTok |-> call[c].hasTok]]
  /\ Commit([d \in Callers |->
               IF d = c THEN [call[d] EXCEPT !.pc = "updated", !.dirty = TRUE]
               ELSE IF Running(call[d]) THEN [call[d] EXCEPT !.dirty = TRUE]
               ELSE call[d]],
            cache, fetches)
  /\ UNCHANGED <<clock, current>>

\* An upsert that clears the slot of its key when its updateOne fails.
DbUpdateFailInvalidates(c) ==
  /\ call[c].pc = "update"
  /\ LET nk == CacheDelete(cache, CacheKey(call[c].token))
     IN  Commit([call EXCEPT ![c] = Finish(@, ErrResult("StoreFailure"), nk)],
                nk, fetches)
  /\ UNCHANGED <<clock, store, current, lastWrite>>

\* updateOne fails: upsert rejects with the driver's error (line 236).
DbUpdateFail(c) ==
  /\ call[c].pc = "update"
  /\ Commit([call EXCEPT ![c] = Finish(@, ErrResult("StoreFailure"), cache)],
            cache, fetches)
  /\ UNCHANGED <<clock, store, current, lastWrite>>

\* upsert resumes after updateOne (lines 238-242).
UpsertReturn(c) ==
  /\ call[c].pc = "updated"
  /\ LET nk == Invalidate(cache, CacheKey(call[c].token))
     IN  Commit([call EXCEPT ![c] =
                   Finish(@, RecResult(call[c].rec, 0), nk)],
                nk, fetches)
  /\ UNCHANGED <<clock, store, current, lastWrite>>

\* explain mode: the cursor's explain('executionStats') answers.
DbExplain(c) ==
  /\ call[c].pc = "explain"
  /\ Commit([call EXCEPT ![c] = Finish(@, ExplainResult, cache)],
            cache, fetches)
  /\ UNCHANGED <<clock, store, current, lastWrite>>

\* explain mode: the explain query fails (connectivity, driver); nothing
\* catches it (lines 134 and 291-292, 231-232) and the call rejects with it.
DbExplainFail(c) ==
  /\ call[c].pc = "explain"
  /\ Commit([call EXCEPT ![c] = Finish(@, ErrResult("StoreFailure"), cache)],
            cache, fetches)
  /\ UNCHANGED <<clock, store, current, lastWrite>>

\* The TTL index on entry.expires (expireAfterSeconds) removes a document.
DbAutoRemove(t) ==
  /\ store[t].present
  /\ store[t].expires + GracePeriod < clock
  /\ store' = [store EXCEPT ![t] = NoRec]
  /\ last' = NoLast
  /\ UNCHANGED <<clock, cache, fetches, call, current, lastWrite>>

Tick ==
  /\ clock < MaxTime
  /\ clock' = clock + 1
  /\ last' = NoLast
  /\ UNCHANGED <<store, cache, fetches, call, current, lastWrite>>

\* The cache protocol under concurrency: two callers, any number of calls,
\* entries addressed by tokenizedId.
Next ==
  \/ \E c \in Callers : Call(c)
  \/ \E f \in FetchIds : DbFind(f)
  \/ \E f \in FetchIds : DbFindFail(f)
  \/ \E f \in FetchIds : FetchSettle(f)
  \/ \E c \in Callers : GetPeek(c)
  \/ \E c \in Callers : GetRethrow(c)
  \/ \E c \in Callers : GetCheck(c)
  \/ \E c \in Callers : DbUpdate(c)
  \/ \E c \in Callers : DbUpdateFail(c)
  \/ \E c \in Callers : UpsertReturn(c)
  \/ \E t \in Tokens : DbAutoRemove(t)
  \/ Tick

Spec == Init /\ [][Next]_vars

\* The same protocol without store failures, each get keeping count of the
\* times it has called itself again (line 151), up to MaxRetries.
GetCheckCounting(c) ==
  /\ call[c].pc = "peeked"
  /\ Awaited(call[c], fetches)
  /\ \E r \in {AfterPromise(call[c], cache, fetches)} :
       LET cr == IF r.cr.pc = "memo" /\ r.cr.retries < MaxRetries
               THEN [r.cr EXCEPT !.retries = @ + 1] ELSE r.cr
     IN  Commit([call EXCEPT ![c] = cr], r.cch, r.fs)
  /\ UNCHANGED <<clock, store, current, lastWrite>>

NextRetry ==
  \/ \E c \in Callers : Call(c)
  \/ \E f \in FetchIds : DbFind(f)
  \/ \E f \in FetchIds : FetchSettle(f)
  \/ \E c \in Callers : GetPeek(c)
  \/ \E c \in Callers : GetRethrow(c)
  \/ \E c \in Callers : GetCheckCounting(c)
  \/ \E c \in Callers : DbUpdate(c)
  \/ \E c \in Callers : UpsertReturn(c)
  \/ Tick

SpecRetry == Init /\ [][NextRetry]_vars

\* Termination of get: the same protocol with finitely many upserts (none
\* is called once the clock has reached MaxTime, and all write one value),
\* every operation that has been started completing: the database answers
\* each findOne and updateOne, every promise that can settle settles, every
\* suspended call that can resume resumes, and the clock advances.
CallLive(c) ==
  /\ Call(c)
  /\ call'[c].op = "upsert" => (clock < MaxTime /\ call'[c].value = "v1")

NextLive ==
  \/ \E c \in Callers : CallLive(c)
  \/ \E f \in FetchIds : DbFind(f)
  \/ \E f \in FetchIds : FetchSettle(f)
  \/ \E c \in Callers : GetPeek(c)
  \/ \E c \in Callers : GetRethrow(c)
  \/ \E c \in Callers : GetCheckCounting(c)
  \/ \E c \in Callers : DbUpdate(c)
  \/ \E c \in Callers : UpsertReturn(c)
  \/ Tick

\* The next step of fetch f, and of caller c's call once it is suspended:
\* at most one of the disjuncts is enabled at a time.
FetchStep(f) == DbFind(f) \/ FetchSettle(f)
CallStep(c) ==
  \/ GetPeek(c) \/ GetRethrow(c) \/ GetCheckCounting(c)
  \/ DbUpdate(c) \/ UpsertReturn(c)

FairLive ==
  /\ \A f \in FetchIds : WF_vars(FetchStep(f))
  /\ \A c \in Callers : WF_vars(CallStep(c))
  /\ WF_vars(Tick)

SpecLive == Init /\ [][NextLive]_vars /\ FairLive

\* The whole argument surface (plaintext id, supplied tokenizer, explain
\* mode), one call at a time.
ApiCallers == {"c1"}

NextApi ==
  \/ \E c \in ApiCallers : CallApi(c)
  \/ \E c \in ApiCallers : GotCurrent(c)
  \/ \E c \in ApiCallers : Tokenized(c)
  \/ \E c \in ApiCallers : ProviderFail(c)
  \/ \E c \in ApiCallers : SignFail(c)
  \/ \E f \in FetchIds : DbFind(f)
  \/ \E f \in FetchIds : DbFindFail(f)
  \/ \E f \in FetchIds : FetchSettle(f)
  \/ \E c \in ApiCallers : GetPeek(c)
  \/ \E c \in ApiCallers : GetRethrow(c)
  \/ \E c \in ApiCallers : GetCheck(c)
  \/ \E c \in ApiCallers : DbUpdate(c)
  \/ \E c \in ApiCallers : DbUpdateFail(c)
  \/ \E c \in ApiCallers : UpsertReturn(c)
  \/ \E c \in ApiCallers : DbExplain(c)
  \/ \E c \in ApiCallers : DbExplainFail(c)
  \/ \E t \in Tokens : DbAutoRemove(t)
  \/ Tick

SpecApi == Init /\ [][NextApi]_vars

\* Addressing by id and by tokenizedId: one caller, two entries, within one
\* reading of the clock.
AddrForms == {a \in ArgForms : ~a.explain /\ a.hasId # a.hasTok}

CallAddr(c) == CallWith(c, AddrForms)

InitAddr == InitWith(TokenizedIds)

NextAddr ==
  \/ \E c \in ApiCallers : CallAddr(c)
  \/ \E c \in ApiCallers : GotCurrent(c)
  \/ \E c \in ApiCallers : Tokenized(c)
  \/ \E f \in FetchIds : DbFind(f)
  \/ \E f \in FetchIds : FetchSettle(f)
  \/ \E c \in ApiCallers : GetPeek(c)
  \/ \E c \in ApiCallers : GetRethrow(c)
  \/ \E c \in ApiCallers : GetCheck(c)
  \/ \E c \in ApiCallers : DbUpdate(c)
  \/ \E c \in ApiCallers : UpsertReturn(c)

SpecAddr == InitAddr /\ [][NextAddr]_vars

\* ------------------------------------------------------ another process
\* The updateOne of an upsert made in another process reaches the shared
\* store: this process's cache is not told.  The record carries the clock
\* reading of that upsert's line 201, taken before it awaited updateOne
\* (line 236): now, or any earlier reading.
RemoteUpsert(t) ==
  \E v \in Values, ttl \in Ttls, now \in 0..clock :
    LET rec == MkRec(t, v, Expires(now, TRUE, ttl), now, now)
        new == UpdateOne(store[t], rec)
        hit(f) == /\ fetches[f].token = t
                  /\ fetches[f].st \in {"found", "resolved"}
                  /\ fetches[f].rec.present
                  /\ fetches[f].rec = store[t]
                  /\ fetches[f].over = NoTime
    IN  /\ new # store[t]
        /\ store' = [store EXCEPT ![t] = new]
        /\ lastWrite' = [lastWrite EXCEPT ![t] =
                           [rec |-> rec, replaced |-> store[t].present,
                            byTok |-> TRUE]]
        /\ fetches' = [f \in FetchIds |->
                         IF hit(f) THEN [fetches[f] EXCEPT !.over = clock]
                         ELSE fetches[f]]
        /\ call' = [c \in Callers |->
                      IF Running(call[c]) THEN [call[c] EXCEPT !.dirty = TRUE]
                      ELSE call[c]]
        /\ last' = NoLast
        /\ UNCHANGED <<clock, cache, current>>

\* One process of two that share the store.
NextRemote ==
  \/ \E c \in ApiCallers : Call(c)
  \/ \E t \in Tokens : RemoteUpsert(t)
  \/ \E f \in FetchIds : DbFind(f)
  \/ \E f \in FetchIds : FetchSettle(f)
  \/ \E c \in ApiCallers : GetPeek(c)
  \/ \E c \in ApiCallers : GetRethrow(c)
  \/ \E c \in ApiCallers : GetCheck(c)
  \/ \E c \in ApiCallers : DbUpdate(c)
  \/ \E c \in ApiCallers : UpsertReturn(c)
  \/ \E t \in Tokens : DbAutoRemove(t)
  \/ Tick

SpecRemote == Init /\ [][NextRemote]_vars

\* ------------------------------------------------ ttl absent or negative
\* upsert({tokenizedId, value}) and upsert({tokenizedId, value, ttl}) with
\* ttl < 0: assert.optionalNumber (line 185) accepts both, and the call
\* goes on to its body.
TtlArgs == {[hasTtl |-> FALSE, ttl |-> 0], [hasTtl |-> TRUE, ttl |-> -1]}

CallUpsertTtl(c) ==
  /\ call[c].pc = "idle"
  /\ \E a \in TtlArgs, tok \in Tokens, value \in Values :
       LET cr == [IdleCall EXCEPT
                    !.op = "upsert", !.hasTok = TRUE, !.token = tok,
                    !.hasTtl = a.hasTtl, !.ttl = a.ttl, !.value = value,
                    !.dirty = \E d \in Callers : call[d].pc = "updated",
                    !.alone = \A d \in Callers \ {c} : ~Running(call[d])]
       IN  Commit([call EXCEPT ![c] = UpsertBody(cr)], cache, fetches)
  /\ UNCHANGED <<clock, store, current, lastWrite>>

NextTtl ==
  \/ \E c \in ApiCallers : Call(c)
  \/ \E c \in ApiCallers : CallUpsertTtl(c)
  \/ \E f \in FetchIds : DbFind(f)
  \/ \E f \in FetchIds : FetchSettle(f)
  \/ \E c \in ApiCallers : GetPeek(c)
  \/ \E c \in ApiCallers : GetRethrow(c)
  \/ \E c \in ApiCallers : GetCheck(c)
  \/ \E c \in ApiCallers : DbUpdate(c)
  \/ \E c \in ApiCallers : DbUpdateFail(c)
  \/ \E c \in ApiCallers : UpsertReturn(c)
  \/ \E t \in Tokens : DbAutoRemove(t)
  \/ Tick

SpecTtl == Init /\ [][NextTtl]_vars

\* ----------------------------------------------------- exported helpers
\* tokenizeId called on its own, with a provider that rotates its current
\* tokenizer.  A call that has returned keeps what it returned until its
\* caller lets go of it.
AllHandles == {1, 2}

Step(c, cr) ==
  /\ call' = [call EXCEPT ![c] = cr]
  /\ last' = NoLast
  /\ UNCHANGED <<clock, store, cache, fetches, lastWrite>>

\* tokenizeId({id, tokenizer}) is called (lines 254-261); given is the
\* tokenizer argument, 0 when there is none.  With none it awaits
\* tokenizers.getCurrent(); with one it calls hmac.sign at once and awaits
\* that.
TokenizeIdCall(c) ==
  /\ call[c].pc = "idle"
  /\ \E id \in Plaintexts, tz \in {0} \cup AllHandles :
       Step(c, [IdleCall EXCEPT !.pc = IF AsksProvider(tz)
                                       THEN "tokenizing" ELSE "signing",
                                !.op = "tokenizeId",
                                !.hasId = TRUE, !.id = id,
                                !.tokenizer = tz, !.given = tz])
  /\ UNCHANGED current

\* getCurrent answers (line 260): the tokenizer is the provider's current
\* one; hmac.sign is called with it (lines 262-267, 319) and awaited.
TokenizeIdCurrent(c) ==
  /\ call[c].pc = "tokenizing"
  /\ Step(c, [call[c] EXCEPT !.pc = "signing", !.tokenizer = current])
  /\ UNCHANGED current

\* hmac.sign answers; tokenizeId returns {tokenizedId, tokenizer} (lines
\* 267-268).
TokenizeIdReturn(c) ==
  /\ call[c].pc = "signing" /\ call[c].op = "tokenizeId"
  /\ Step(c, [call[c] EXCEPT !.pc = "returned",
                             !.token = HmacString(call[c].tokenizer,
                                                  call[c].id),
                             !.result = RecResult(NoRec, 0)])
  /\ UNCHANGED current

\* tokenizers.getCurrent() rejects, or hmac.sign does: tokenizeId rejects
\* with it.
TokenizeIdFail(c) ==
  /\ call[c].op = "tokenizeId"
  /\ call[c].pc \in {"tokenizing", "signing"}
  /\ Step(c, [call[c] EXCEPT
                !.pc = "returned",
                !.result = ErrResult(IF call[c].pc = "tokenizing"
                                     THEN "KeyProviderFailure"
                                     ELSE "SignFailure")])
  /\ UNCHANGED current

\* _hmacString({hmac, value}) is called (line 318) and awaits hmac.sign.
HmacStringCall(c) ==
  /\ call[c].pc = "idle"
  /\ \E value \in Plaintexts, h \in AllHandles :
       Step(c, [IdleCall EXCEPT !.pc = "signing", !.op = "hmacString",
                                !.id = value, !.tokenizer = h, !.given = h])
  /\ UNCHANGED current

\* hmac.sign resolves and _hmacString returns the buffer (lines 319-323).
HmacStringReturn(c) ==
  /\ call[c].pc = "signing" /\ call[c].op = "hmacString"
  /\ Step(c, [call[c] EXCEPT !.pc = "returned",
                             !.token = HmacString(call[c].tokenizer,
                                                  call[c].id),
                             !.result = RecResult(NoRec, 0)])
  /\ UNCHANGED current

\* hmac.sign rejects and _hmacString rejects with it (line 319).
HmacStringFail(c) ==
  /\ call[c].pc = "signing" /\ call[c].op = "hmacString"
  /\ Step(c, [call[c] EXCEPT !.pc = "returned",
                             !.result = ErrResult("SignFailure")])
  /\ UNCHANGED current

\* The caller lets go of what a helper returned.
Release(c) ==
  /\ call[c].pc = "returned"
  /\ Step(c, IdleCall)
  /\ UNCHANGED current

\* The key provider rotates: getCurrent resolves to another tokenizer.
Rotate ==
  /\ \E h \in AllHandles \ {current} : current' = h
  /\ last' = NoLast
  /\ UNCHANGED <<clock, store, cache, fetches, call, lastWrite>>

NextTok ==
  \/ \E c \in Callers : TokenizeIdCall(c)
  \/ \E c \in Callers : TokenizeIdCurrent(c)
  \/ \E c \in Callers : TokenizeIdReturn(c)
  \/ \E c \in Callers : TokenizeIdFail(c)
  \/ \E c \in Callers : HmacStringCall(c)
  \/ \E c \in Callers : HmacStringReturn(c)
  \/ \E c \in Callers : HmacStringFail(c)
  \/ \E c \in Callers : Release(c)
  \/ Rotate

SpecTok == Init /\ [][NextTok]_vars

\* ------------------------------------------------------- the collection
\* The collection as the database holds it: document slots, written by the
\* updateOne calls of upserts running in any processes.  The database works
\* on an updateOne with upsert: true in two steps, between which the other
\* updateOne calls proceed: it looks for a document that matches the query,
\* then updates that document or, none having matched, inserts one.
DocIds == {1, 2, 3}

\* A query that matches no document, so that every upsert inserts.
MatchesNothing(query, doc) == FALSE

\* query = {'entry.tokenizedId': entry.tokenizedId} (line 211)
Matches(query, doc) == doc.present /\ doc.tokenizedId = query

\* An index on entry.tokenizedId that is not unique.
UniqueIndexOff(coll) == TRUE

\* The unique index on entry.tokenizedId (lines 50-55): the collection as
\* a write would leave it is admissible.
UniqueIndexOk(coll) ==
  \A d, e \in DOMAIN coll :
    (d # e /\ coll[d].present /\ coll[e].present) =>
      coll[d].tokenizedId # coll[e].tokenizedId

\* The key of the unique index (line 53) and the field of the query's
\* equality (line 211).
IndexField == "entry.tokenizedId"
QueryField == "entry.tokenizedId"

\* What the database does with an upsert whose insert the unique index has
\* refused: when the query is an equality on the key of that index the
\* server runs the upsert again (it then finds the document that won);
\* otherwise updateOne fails with the duplicate-key error.
RetriesRefusedInsert(queryField) == queryField = IndexField

Lowest(S) == CHOOSE d \in S : \A e \in S : d <= e

\* An upsert of the collection has completed: its result, whether its
\* updateOne replaced a document and whether an insert of it was refused.
WriteDone(cr, replaced, res) ==
  [who |-> "db", stale |-> NoFetch,
   r |-> [IdleCall EXCEPT !.op = "upsert", !.hasTok = TRUE,
                          !.token = cr.token, !.result = res,
                          !.refused = cr.refused,
                          !.lastW = [rec |-> cr.rec, replaced |-> replaced,
                                     byTok |-> TRUE]]]

\* Each writer writes a value of its own, so that the stored document tells
\* whose write came last.
WriterValue(w) == IF w = "c1" THEN "v1" ELSE "v2"

\* An upsert({tokenizedId, value, ttl}) in some process builds its record
\* from the clock reading of line 201 and sends updateOne (line 236).
StoreUpsert(w) ==
  /\ call[w].pc = "idle"
  /\ \E t \in TokenizedIds, ttl \in Ttls, v \in {WriterValue(w)} :
       call' = [call EXCEPT ![w] =
                  [IdleCall EXCEPT
                     !.pc = "update", !.op = "upsert", !.hasTok = TRUE,
                     !.token = t, !.ttl = ttl, !.value = v,
                     !.rec = MkRec(t, v, Expires(clock, TRUE, ttl),
                                   clock, clock)]]
  /\ last' = NoLast
  /\ UNCHANGED <<clock, store, cache, fetches, current, lastWrite>>

\* The database evaluates the query of an updateOne.
StoreUpsertMatch(w) ==
  /\ call[w].pc = "update"
  /\ LET matched == {d \in DocIds : Matches(call[w].token, store[d])}
     IN  call' = [call EXCEPT ![w] =
                    [@ EXCEPT !.pc = "write",
                              !.matched = IF matched = {} THEN 0
                                          ELSE Lowest(matched)]]
  /\ last' = NoLast
  /\ UNCHANGED <<clock, store, cache, fetches, current, lastWrite>>

\* The updateOne of call cr has been executed, having replaced a document
\* or not, with outcome res; the upsert that awaits it (line 236) has yet
\* to resume.
Executed(cr, replaced, res) ==
  [cr EXCEPT !.pc = "updated", !.result = res,
             !.lastW = [rec |-> cr.rec, replaced |-> replaced,
                        byTok |-> TRUE]]

\* The database writes.  A matched document takes the $set of lines
\* 213-218 (if it has gone since, the query is evaluated again).  With no
\* match a document is inserted (upsert: true, line 226) unless the unique
\* index refuses it, which it does when another upsert of the same
\* tokenizedId has inserted in between.
StoreUpsertWrite(w) ==
  /\ call[w].pc = "write"
  /\ LET cr == call[w]
         free == {d \in DocIds : ~store[d].present}
     IN  IF cr.matched # 0
         THEN IF Matches(cr.token, store[cr.matched])
              THEN /\ store' = [store EXCEPT ![cr.matched] =
                                  UpdateOne(@, cr.rec)]
                   /\ call' = [call EXCEPT ![w] =
                                 Executed(cr, TRUE, RecResult(cr.rec, 0))]
              ELSE /\ store' = store
                   /\ call' = [call EXCEPT ![w] = [@ EXCEPT !.pc = "update"]]
         ELSE /\ free # {}
              /\ \E nc \in {[store EXCEPT ![Lowest(free)] =
                                UpdateOne(NoRec, cr.rec)]} :
                   IF UniqueIndexOk(nc)
                   THEN /\ store' = nc
                        /\ call' = [call EXCEPT ![w] =
                                      Executed(cr, FALSE,
                                               RecResult(cr.rec, 0))]
                   ELSE IF RetriesRefusedInsert(QueryField)
                   THEN /\ store' = store
                        /\ call' = [call EXCEPT ![w] =
                                      [@ EXCEPT !.pc = "update",
                                                !.refused = TRUE]]
                   ELSE /\ store' = store
                        /\ call' = [call EXCEPT ![w] =
                                      Executed([cr EXCEPT !.refused = TRUE],
                                               FALSE,
                                               ErrResult("DuplicateKey"))]
  /\ last' = NoLast
  /\ UNCHANGED <<clock, cache, fetches, current, lastWrite>>

\* upsert resumes after `await collection.updateOne` (line 236), in a
\* callback of its own: an error of updateOne is thrown on; otherwise the
\* slot of the key is cleared (line 240) and the record built at lines
\* 201-224 is returned, whatever the collection holds by then.
StoreUpsertReturn(w) ==
  /\ call[w].pc = "updated"
  /\ cache' = IF call[w].result.kind = "record"
              THEN Invalidate(cache, CacheKey(call[w].token))
              ELSE cache
  /\ call' = [call EXCEPT ![w] = IdleCall]
  /\ last' = WriteDone(call[w], call[w].lastW.replaced, call[w].result)
  /\ UNCHANGED <<clock, store, fetches, current, lastWrite>>

\* The TTL index removes a document of the collection.
StoreAutoRemove(d) ==
  /\ store[d].present
  /\ store[d].expires + GracePeriod < clock
  /\ store' = [store EXCEPT ![d] = NoRec]
  /\ last' = NoLast
  /\ UNCHANGED <<clock, cache, fetches, call, current, lastWrite>>

InitStore ==
  /\ clock = 0
  /\ store = [d \in DocIds |-> NoRec]
  /\ cache = [k \in CacheKeys |-> Absent]
  /\ fetches = [f \in FetchIds |-> FreeFetch]
  /\ call = [c \in Callers |-> IdleCall]
  /\ current = 1
  /\ lastWrite = [t \in TokenizedIds |-> NoWrite]
  /\ last = NoLast

NextStore ==
  \/ \E w \in Callers : StoreUpsert(w)
  \/ \E w \in Callers : StoreUpsertMatch(w)
  \/ \E w \in Callers : StoreUpsertWrite(w)
  \/ \E w \in Callers : StoreUpsertReturn(w)
  \/ \E d \in DocIds : StoreAutoRemove(d)
  \/ Tick

SpecStore == InitStore /\ [][NextStore]_vars

\* ================================================================== claims
\* The call that completed in the latest step, if it was a get.
GetDone == last.who # "" /\ last.r.pc = "done" /\ last.r.op = "get"
GotRecord == GetDone /\ last.r.result.kind = "record"
GetFailed(n) ==
  GetDone /\ last.r.result.kind = "error" /\ last.r.result.name = n

\* A get that started after every upsert that had written had returned, and
\* during which nothing was written.
Undisturbed == GetDone /\ ~last.r.dirty

\* The entry as it is stored when the get completes.
StoredExpired == last.r.latest.present /\ last.r.latest.expires < clock

\* C1: a record that get returns was not expired (expires >= now) at the
\* reading of the clock in get's freshness check, whether the promise came
\* out of the in-memory cache or was fetched by this call.
C1_NeverReturnsExpired ==
  GotRecord =>
    /\ last.r.result.rec.present
    /\ last.r.result.rec.expires >= last.r.result.now

\* C1 witness: a get is served a record from the in-memory cache after the
\* clock has moved on.
C1_Witness ==
  GotRecord /\ ~last.r.installer /\ last.r.result.now > 0

\* C2: a get that starts after an upsert has returned, with no write to the
\* key since and the written entry not expired, returns the value stored by
\* that upsert, whatever other gets on the key are in flight (a get that
\* fails because the store failed its findOne is set aside).
C2_ReadYourWrites ==
  ( /\ Undisturbed
    /\ last.r.latest.present /\ last.r.latest.expires >= clock
    /\ ~GetFailed("StoreFailure") ) =>
      /\ last.r.result.kind = "record"
      /\ last.r.result.rec.value = last.r.latest.value

\* C2 case: such a get fails with the TypeError of line 147 while the entry
\* is stored and live, no other call having run beside it (the promise it
\* installed aged out of the cache before the peek of line 142).
C2_Witness ==
  /\ Undisturbed /\ GetFailed("TypeError") /\ last.r.alone
  /\ last.r.latest.present /\ last.r.latest.expires >= clock

\* C3: the record a get returns right after an upsert equals, field for
\* field, the record that upsert returned (insert or replacement, fetched
\* from the store or served from the cache).
C3_UpsertRecordEqualsGet ==
  (Undisturbed /\ last.r.result.kind = "record") =>
    last.r.result.rec = last.r.lastW.rec

\* C3 witness: the get after a replacing upsert is served from the cache,
\* later than the entry that was replaced was created.
C3_Witness ==
  /\ Undisturbed /\ last.r.result.kind = "record"
  /\ last.r.lastW.replaced /\ ~last.r.installer
  /\ last.r.lastW.rec.created > 0

\* C4 as claimed: an upsert that matches a stored entry leaves its
\* meta.created (and tokenizedId) unchanged.
C4_CreatedKept ==
  [][\A t \in Tokens :
       (store[t].present /\ store'[t].present) =>
         /\ store'[t].created = store[t].created
         /\ store'[t].tokenizedId = store[t].tokenizedId]_vars

\* C4 amended: an upsert that matches a stored entry overwrites value,
\* expires, meta.created and meta.updated with those of the record it
\* returns and leaves tokenizedId unchanged: a stored entry always equals
\* the record of the upsert that wrote last, so meta.created is the time
\* of the latest upsert, not of the first.
C4_StoredIsLastWritten ==
  \A t \in Tokens :
    store[t].present =>
      /\ store[t] = lastWrite[t].rec
      /\ store[t].tokenizedId = t
      /\ store[t].created = store[t].updated

\* C4 witness: an entry was replaced later than it was first written.
C4_Witness ==
  \E t \in Tokens :
    store[t].present /\ lastWrite[t].replaced /\ store[t].created > 0

\* C5 as claimed: the get after upsert(ttl = 0) fails with NotFound however
\* little time has passed (store failures and evictions under the get set
\* aside).
C5_ZeroTtlAlwaysNotFound ==
  ( /\ Undisturbed /\ last.r.alone
    /\ last.r.latest.present
    /\ last.r.latest.expires = last.r.latest.created
    /\ ~GetFailed("StoreFailure") /\ ~GetFailed("TypeError") )
  => GetFailed("NotFoundError")

\* C5 amended: the get after upsert(ttl = 0) fails once the clock reads
\* later than the upsert's reading (expires < now); it fails with NotFound
\* unless the store failed or the slot was evicted under it; and when a get
\* running alone fails with NotFound, the cache holds no entry for the key.
C5_ExpiredEntryNotFound ==
  /\ (Undisturbed /\ StoredExpired) =>
       /\ last.r.result.kind = "error"
       /\ last.r.result.name \in {"NotFoundError", "StoreFailure", "TypeError"}
  /\ (GetFailed("NotFoundError") /\ last.r.alone) =>
       last.r.slotAfter = NoFetch

\* C5 witness: a get running alone after an upsert with ttl = 0 that
\* replaced an entry fails with NotFound and leaves the slot absent.
C5_Witness ==
  /\ Undisturbed /\ last.r.alone /\ StoredExpired
  /\ last.r.latest.expires = last.r.latest.created
  /\ last.r.lastW.replaced
  /\ GetFailed("NotFoundError") /\ last.r.slotAfter = NoFetch

\* Caller c enters memoize in this step.
EntersMemo(c) == call[c].pc # "memo" /\ call'[c].pc = "memo"

\* What cache.get(key) answers to caller c as it enters memoize: a get that
\* calls itself again has first deleted the promise it found expired.
SlotMet(c) ==
  LET k == CacheKey(call'[c].token)
  IN  IF call[c].pc = "peeked" /\ cache[k].p = call[c].p THEN NoFetch
      ELSE Purge(cache, k)[k].p

\* No findOne is sent in this step.
NoNewFind == \A f \in FetchIds : fetches[f].st = "free" => fetches'[f].st = "free"

\* The callers whose memoize created fetch f and still await it.
Installers(f) ==
  {c \in Callers : call[c].pc = "memo" /\ call[c].p = f /\ call[c].installer}

\* C6: a get that enters memoize while the slot of its key holds a fetch
\* that has not settled shares that fetch and sends no findOne of its own;
\* every fetch whose findOne is outstanding was sent once, by the one call
\* that installed it.
C6_Coalescing ==
  /\ [](\A f \in FetchIds :
          fetches[f].st \in {"finding", "found"} =>
            Cardinality(Installers(f)) = 1)
  /\ [][\A c \in Callers :
          (EntersMemo(c) /\ SlotMet(c) # NoFetch
             /\ ~Settled(fetches[SlotMet(c)])) =>
            /\ call'[c].p = SlotMet(c)
            /\ ~call'[c].installer
            /\ cache'[CacheKey(call'[c].token)].p = call'[c].p
            /\ NoNewFind]_vars

\* C6 witness: two gets await the same unsettled fetch, one of them its
\* installer.
C6_Witness ==
  \E f \in FetchIds :
    /\ ~Settled(fetches[f])
    /\ \A c \in Callers : call[c].pc = "memo" /\ call[c].p = f
    /\ Cardinality(Installers(f)) = 1

\* A slot holds a rejected fetch only until the memoize that installed it
\* resumes.
RejectedOnlyUnobserved ==
  \A k \in Keys :
    (cache[k].p # NoFetch /\ fetches[cache[k].p].st = "rejected") =>
      Installers(cache[k].p) # {}

\* What a failed fetch leads to, step by step.  The step in which the
\* installing memoize resumes leaves get to reject with the fetch's error,
\* which get does in its next step without touching the cache; every other
\* get that awaits a failed fetch completes with that failure; and a get
\* that meets an absent slot sends a new findOne.  absent: the step in
\* which the installing memoize resumes leaves the slot of the key absent;
\* otherwise: absent, or as it was when it held another fetch.
FailureHandled(absent) ==
  \A c \in Callers :
      /\ ( /\ call[c].pc \in {"memo", "peeked"}
           /\ call[c].p # NoFetch
           /\ fetches[call[c].p].st = "rejected"
           /\ call'[c].pc # call[c].pc ) =>
           IF call[c].pc = "memo" /\ call[c].installer
           THEN /\ call'[c].pc = "rethrow"
                /\ call'[c].result = ErrResult(fetches[call[c].p].err)
                /\ LET k == CacheKey(call[c].token)
                   IN  IF absent \/ cache[k].p = call[c].p
                       THEN cache'[k] = Absent
                       ELSE cache'[k] \in {Absent, cache[k]}
           ELSE /\ last'.who = c
                /\ last'.r.result = ErrResult(fetches[call[c].p].err)
      /\ (call[c].pc = "rethrow" /\ call'[c].pc # "rethrow") =>
           /\ last'.who = c
           /\ last'.r.result = call[c].result
           /\ cache' = cache
      /\ (EntersMemo(c) /\ SlotMet(c) = NoFetch) =>
           /\ call'[c].installer
           /\ fetches[call'[c].p].st = "free"
           /\ fetches'[call'[c].p].st = "finding"
           /\ cache'[CacheKey(call'[c].token)].p = call'[c].p

C8_CacheReuse ==
  [][\A c \in Callers :
       /\ (EntersMemo(c) /\ SlotMet(c) # NoFetch
             /\ fetches[SlotMet(c)].st = "resolved") =>
            /\ call'[c].p = SlotMet(c)
            /\ ~call'[c].installer
            /\ cache'[CacheKey(call'[c].token)] =
                 cache[CacheKey(call'[c].token)]
            /\ NoNewFind
       /\ ( /\ last'.who = c /\ last'.r.op = "get"
            /\ last'.r.result.kind = "record" ) =>
            /\ cache' = cache
            /\ NoNewFind]_vars

\* C8 witness: a get that ran with no other call in flight returns a
\* record from a fetch that an earlier get installed.
C8_Witness ==
  /\ GotRecord /\ ~last.r.installer /\ last.r.alone
  /\ last.r.slotAfter # NoFetch

\* C9: a call that gives both id and tokenizedId, or neither, fails with an
\* invalid-argument error in the step that makes the call: it never awaits
\* the key provider or the store, and store, cache, fetches and the
\* provider's current tokenizer are as they were.
C9_InvalidArgumentsBeforeIO ==
  /\ [](\A c \in ApiCallers :
          Running(call[c]) => (call[c].hasId # call[c].hasTok))
  /\ [][(last'.who # "" /\ last'.r.hasId = last'.r.hasTok) =>
          /\ last'.r.result.kind = "error"
          /\ last'.r.result.name \in InvalidArgumentNames
          /\ call[last'.who].pc = "idle"
          /\ UNCHANGED <<clock, store, cache, fetches, current, lastWrite>>]_vars

\* C9 witness: an upsert given both id and tokenizedId fails while an entry
\* is stored.
C9_Witness ==
  /\ last.who # "" /\ last.r.op = "upsert"
  /\ last.r.hasId /\ last.r.hasTok
  /\ last.r.result.name = "OnlyOneOf"
  /\ \E t \in Tokens : store[t].present

\* C10: a lookup that finds no document and one that finds a document whose
\* expires is before now both reject with NotFound, and a lookup that
\* resolves gives a document with expires >= now; a get of a key whose
\* entry is missing or expired completes with a failure.
C10_MissAndExpiredAlike ==
  /\ [](Undisturbed /\ (~last.r.latest.present \/ StoredExpired) =>
          last.r.result.kind = "error")
  /\ [][\A f \in FetchIds :
          (fetches[f].st = "found" /\ Settled(fetches'[f])) =>
            /\ ( /\ fetches[f].err = ""
                 /\ (~fetches[f].rec.present \/ fetches[f].rec.expires < clock) )
               => /\ fetches'[f].st = "rejected"
                  /\ fetches'[f].err = "NotFoundError"
                  /\ fetches'[f].rec = NoRec
            /\ fetches'[f].st = "resolved" =>
                 /\ fetches'[f].rec.present
                 /\ fetches'[f].rec.expires >= clock]_vars

\* C10 witness: a lookup has rejected with NotFound for an entry that is
\* expired and still in the store.
C10_Witness ==
  \E f \in FetchIds :
    /\ fetches[f].st = "rejected" /\ fetches[f].err = "NotFoundError"
    /\ store[fetches[f].token].present
    /\ store[fetches[f].token].expires < clock
    /\ store[fetches[f].token].created < clock

\* C11: explain mode bypasses the in-memory cache.  A call made with
\* explain = true awaits only tokenizeId and the explain cursor; none of its
\* steps changes the cache, the pending fetches or the store; and it
\* completes with the store's diagnostics and never with a record, or
\* else with the failure of its arguments, of the key provider or of the
\* explain query.
C11_ExplainBypassesCache ==
  /\ [](\A c \in ApiCallers :
          (Running(call[c]) /\ call[c].explain) =>
            call[c].pc \in {"tokenize", "sign", "explain"})
  /\ [][\A c \in ApiCallers :
          ( \/ /\ Running(call'[c]) /\ call'[c].explain
               /\ call'[c].pc # call[c].pc
            \/ last'.who = c /\ last'.r.explain ) =>
            /\ UNCHANGED <<store, cache, fetches, lastWrite>>
            /\ (last'.who = c) =>
                 \/ last'.r.result = ExplainResult
                 \/ /\ last'.r.result.kind = "error"
                    /\ last'.r.result.name \in
                         InvalidArgumentNames
                           \cup {"KeyProviderFailure", "SignFailure",
                                 "StoreFailure"}]_vars

\* C11 witness: an upsert in explain mode returns diagnostics while an
\* entry is stored and cached, and the slot is still held afterwards.
C11_Witness ==
  /\ last.who # "" /\ last.r.op = "upsert" /\ last.r.explain
  /\ last.r.result = ExplainResult
  /\ last.r.latest.present /\ last.r.slotAfter # NoFetch

\* The tokenized id that the plaintext id of the completed call stands for.
TokenOfLast ==
  <<18, 32>> \o HmacSign(IF last.r.tokenizer = 0 THEN current
                         ELSE last.r.tokenizer,
                         TextEncode(last.r.id))

\* C12: a get by plaintext id and a get by the tokenized id of that id
\* address the same entry and the same cache slot.  A get by id that
\* returns a record returns the entry stored under tokenizeId(id), equal to
\* what the last upsert on that tokenized id wrote, however that upsert was
\* addressed; and a get entering memoize takes or installs the promise in
\* the slot of its tokenized id's key and touches no other slot.
C12_AddressingEquivalent ==
  /\ [](GotRecord /\ last.r.hasId =>
          /\ last.r.token = TokenOfLast
          /\ last.r.result.rec.tokenizedId = TokenOfLast
          /\ Undisturbed => last.r.result.rec = lastWrite[TokenOfLast].rec)
  /\ [](GotRecord /\ last.r.hasTok =>
          /\ last.r.result.rec.tokenizedId = last.r.token
          /\ Undisturbed => last.r.result.rec = lastWrite[last.r.token].rec)
  /\ [][\A c \in ApiCallers : EntersMemo(c) =>
          /\ cache'[CacheKey(call'[c].token)].p = call'[c].p
          /\ \A k \in Keys \ {CacheKey(call'[c].token)} :
               cache'[k] = cache[k]]_vars

\* C12 witness: a get by plaintext id is served, from the cache, the entry
\* that an upsert by tokenized id wrote.
C12_Witness ==
  /\ GotRecord /\ last.r.hasId /\ ~last.r.installer
  /\ last.r.lastW.byTok /\ last.r.result.rec = last.r.lastW.rec
  /\ last.r.id = "b"

OverwrittenLongAgo(f) == f.over # NoTime /\ clock - f.over > MaxAge

\* C14: a get takes from the in-memory cache (at memoize's cache.get and at
\* the peek that follows) only a promise whose document another process
\* overwrote no longer than maxAge ago; a promise stays in its slot no longer
\* than maxAge after it was put there, and what it read it read after that.
C14_StalenessBoundedByMaxAge ==
  /\ [](\A k \in Keys :
          (cache[k].p # NoFetch /\ fetches[cache[k].p].over # NoTime) =>
            fetches[cache[k].p].over >= cache[k].at)
  /\ [][\A c \in ApiCallers :
          /\ ( /\ call[c].pc = "memo" /\ call'[c].pc = "peeked"
               /\ call'[c].p # NoFetch ) =>
               ~OverwrittenLongAgo(fetches[call'[c].p])
          /\ (EntersMemo(c) /\ ~call'[c].installer) =>
               ~OverwrittenLongAgo(fetches[call'[c].p])]_vars

\* C14 witness: a get returns a value that another process overwrote at an
\* earlier reading of the clock.
C14_Witness ==
  /\ GotRecord /\ ~last.r.installer
  /\ last.r.latest.present /\ last.r.result.rec # last.r.latest
  /\ last.r.latest.updated < last.r.result.now

\* The get of the latest step called itself again after a stale record.
Retried == last.who # "" /\ last.r.pc = "memo"

\* C15: only an upsert's updateOne (and the TTL index's removal) changes
\* the store, never a step of a get, its staleness eviction and retry
\* included; and the expires an updateOne stores is that upsert's clock
\* reading plus its ttl.
C15_ExpiresSetOnlyByUpsert ==
  [][/\ \A t \in Tokens :
          store'[t] # store[t] =>
            \/ \E c \in Callers :
                 /\ call[c].op = "upsert" /\ call[c].token = t
                 /\ call[c].pc = "update" /\ call'[c].pc = "updated"
                 /\ store'[t].present
                 /\ store'[t].updated <= clock
                 /\ store'[t].expires = store'[t].updated + call[c].ttl
            \/ /\ store[t].present /\ ~store'[t].present
               /\ store[t].expires + GracePeriod < clock
     /\ \A c \in Callers :
          (call[c].op = "get" /\ call'[c] # call[c]
             /\ call'[c].pc # call[c].pc) => store' = store
     /\ (last'.who # "" /\ last'.r.op = "get") => store' = store]_vars

\* C15 witness: a get has just found its record stale and called itself
\* again, and the entry is still stored with the expires that was written,
\* which is later than the time of the write.
C15_Witness ==
  /\ Retried
  /\ store[last.r.token].present
  /\ store[last.r.token] = lastWrite[last.r.token].rec
  /\ store[last.r.token].expires > store[last.r.token].updated

\* Caller c holds what a tokenizeId returned.
TokReturned(c) ==
  /\ call[c].pc = "returned" /\ call[c].op = "tokenizeId"
  /\ call[c].result.kind = "record"

\* C16: tokenizeId returns the tokenized id together with the tokenizer
\* that computed it.  With a tokenizer supplied, getCurrent is never
\* awaited, and that tokenizer is used and returned whatever the provider's
\* current one is; with none supplied, the tokenizer is the provider's
\* current one when getCurrent answers, and it is used and returned even if
\* the provider rotates before hmac.sign answers; a failure of getCurrent
\* or of hmac.sign is what the call fails with, and a call given a
\* tokenizer can fail only on hmac.sign; and two calls with the same id
\* whose returned or supplied tokenizers are equal return the same
\* tokenized id.
C16_TokenizeIdReturnsItsHandle ==
  /\ [](\A c \in Callers :
          /\ TokReturned(c) =>
               /\ call[c].token =
                    <<18, 32>> \o HmacSign(call[c].tokenizer,
                                           TextEncode(call[c].id))
               /\ call[c].given # 0 => call[c].tokenizer = call[c].given
          /\ call[c].pc = "tokenizing" => call[c].given = 0
          /\ ( /\ call[c].pc = "returned" /\ call[c].op = "tokenizeId"
               /\ call[c].result.kind = "error" ) =>
               /\ call[c].result.name \in
                    (IF call[c].given = 0
                     THEN {"KeyProviderFailure", "SignFailure"}
                     ELSE {"SignFailure"})
               /\ call[c].token = <<>>)
  /\ [](\A c, d \in Callers :
          ( /\ TokReturned(c) /\ TokReturned(d)
            /\ call[c].id = call[d].id
            /\ call[c].tokenizer = call[d].tokenizer ) =>
            call[c].token = call[d].token)
  /\ [][\A c \in Callers :
          /\ (call[c].pc = "tokenizing" /\ call'[c].pc = "signing") =>
               call'[c].tokenizer = current
          /\ (call[c].pc = "signing" /\ TokReturned(c)') =>
               call'[c].tokenizer = call[c].tokenizer
          /\ (call[c].pc = "tokenizing" /\ call'[c].pc = "returned") =>
               call'[c].result = ErrResult("KeyProviderFailure")]_vars

\* C16 witness: a call without a tokenizer returned the provider's current
\* one; the provider has rotated since; a second call that was handed the
\* returned tokenizer addresses the same tokenized id.
C16_Witness ==
  \E c, d \in Callers :
    /\ TokReturned(c) /\ TokReturned(d)
    /\ call[c].given = 0 /\ call[d].given = call[c].tokenizer
    /\ current # call[c].tokenizer
    /\ call[c].id = call[d].id /\ call[c].token = call[d].token

\* Caller c holds the buffer a tokenization returned (tokenizeId or
\* _hmacString).
Tokenization(c) ==
  /\ call[c].pc = "returned" /\ call[c].op \in {"tokenizeId", "hmacString"}
  /\ call[c].result.kind = "record"

\* C17: under one tokenizer, tokenizations of the same plaintext return the
\* same bytes and tokenizations of different plaintexts return different
\* bytes; the bytes are the tag 18, 32 followed by the signature of the
\* plaintext's encoding.
C17_TokenizationDeterministic ==
  /\ \A c, d \in Callers :
       ( /\ Tokenization(c) /\ Tokenization(d)
         /\ call[c].tokenizer = call[d].tokenizer ) =>
         (call[c].id = call[d].id <=> call[c].token = call[d].token)
  /\ \A c \in Callers :
       Tokenization(c) =>
         /\ SubSeq(call[c].token, 1, 2) = <<18, 32>>
         /\ SubSeq(call[c].token, 3, Len(call[c].token)) =
              HmacSign(call[c].tokenizer, TextEncode(call[c].id))

\* C17 case: two tokenizations under one tokenizer have returned the same
\* bytes for two different plaintexts, which TextEncoder had encoded to
\* the same data.
C17_Witness ==
  \E c, d \in Callers :
    /\ Tokenization(c) /\ Tokenization(d)
    /\ call[c].tokenizer = call[d].tokenizer
    /\ call[c].id # call[d].id
    /\ TextEncode(call[c].id) = TextEncode(call[d].id)
    /\ call[c].token = call[d].token

\* What the slot of caller c's key holds when c looks at it.
SlotNow(c) == Purge(cache, CacheKey(call[c].token))[CacheKey(call[c].token)]

\* C19: when a get finds the record it awaited expired, the slot of its key
\* is emptied only if it still holds the promise that gave that record; a
\* different promise found there stays where it is, with its age, and is
\* the one the get goes on with.  A get that finds its record live leaves
\* the cache as it is.
C19_CompareAndRemove ==
  [][\A c \in Callers :
       /\ c \in Retrying(call') =>
            LET k == CacheKey(call[c].token)
            IN  /\ RecordExpired(fetches[call[c].p].rec, clock)
                /\ SlotNow(c).p \notin {call[c].p, NoFetch} =>
                     /\ cache'[k] = SlotNow(c)
                     /\ call'[c].p = SlotNow(c).p
                     /\ ~call'[c].installer
                     /\ fetches'[SlotNow(c).p] = fetches[SlotNow(c).p]
                /\ SlotNow(c).p = call[c].p =>
                     /\ cache'[k].p # call[c].p
                     /\ call'[c].installer
                /\ \A j \in Keys \ {k} : cache'[j] = cache[j]
       /\ ( /\ call[c].pc = "peeked" /\ call'[c].pc = "idle"
            /\ last'.who = c ) => cache' = cache]_vars

\* C19 witness: a get has just found its record expired while the slot
\* held another promise, installed in the meantime; that promise is still
\* in the slot and the get has joined it.
C19_Witness ==
  /\ Retried /\ ~last.r.installer
  /\ last.stale \notin {NoFetch, last.r.p}
  /\ cache[CacheKey(last.r.token)].p = last.r.p
  /\ call[last.who].p = last.r.p

\* C20 as stated: a get that calls itself again always sends a findOne of
\* its own, and no get calls itself again twice.
C20_RetryAlwaysFinds ==
  /\ [][\A c \in Retrying(call') :
          /\ call'[c].installer
          /\ fetches'[call'[c].p].st = "finding"]_vars
  /\ [](\A c \in Callers : call[c].retries <= 1)

\* C20: a get that calls itself again never goes on with the promise whose
\* record it found expired.  If the slot held that promise or nothing, the
\* get installs a new promise and a findOne is sent; if the slot held a
\* different promise, the get joins it and no findOne is sent.  A get
\* during which no other call runs calls itself again at most once.
C20_RetryFindsOrJoins ==
  /\ [][\A c \in Retrying(call') :
          /\ call'[c].p # call[c].p
          /\ IF SlotNow(c).p \in {call[c].p, NoFetch}
             THEN /\ call'[c].installer
                  /\ fetches[call'[c].p].st = "free"
                  /\ fetches'[call'[c].p].st = "finding"
                  /\ fetches'[call'[c].p].token = call[c].token
             ELSE /\ ~call'[c].installer
                  /\ call'[c].p = SlotNow(c).p
                  /\ NoNewFind]_vars
  /\ [](\A c \in Callers : call[c].retries > 1 => ~call[c].alone)

\* C20 witness: a get has just called itself again for the second time,
\* this time sending a findOne.
C20_Witness ==
  /\ Retried /\ last.r.retries = 2
  /\ last.r.installer /\ fetches[last.r.p].st = "finding"

\* The upsert of the latest step returned its record.
UpsertReturned ==
  /\ last.who # "" /\ last.r.pc = "done" /\ last.r.op = "upsert"
  /\ last.r.result.kind = "record"

\* C21: an upsert returns its record only from the step after its
\* updateOne, and in the state that step leaves the slot of its key is
\* empty, whatever it held (a settled promise or a find still under way);
\* that step is the upsert's alone: no other call moves in it, the store is
\* not written in it and no other slot changes.
C21_SlotAbsentAtUpsertReturn ==
  /\ [](UpsertReturned =>
          /\ last.r.slotAfter = NoFetch
          /\ cache[CacheKey(last.r.token)] = Absent
          /\ last.r.lastW.rec.present)
  /\ [][\A c \in Callers :
          (UpsertReturned' /\ last'.who = c) =>
            /\ call[c].pc = "updated" /\ call[c].op = "upsert"
            /\ call[c].dirty
            /\ \A d \in Callers \ {c} : call'[d] = call[d]
            /\ store' = store
            /\ \A j \in Keys \ {CacheKey(call[c].token)} :
                 cache'[j] = cache[j]
            /\ \A f \in FetchIds :
                 fetches'[f] \in {fetches[f], FreeFetch}]_vars

\* C21 witness: an upsert has just returned while a get's find for the
\* same key is still under way; the promise that get installed is no
\* longer in the slot, and no slot can have aged out yet.
C21_Witness ==
  /\ UpsertReturned /\ clock <= MaxAge
  /\ \E d \in Callers :
       /\ call[d].pc = "memo" /\ call[d].installer
       /\ call[d].token = last.r.token
       /\ fetches[call[d].p].st \in {"finding", "found"}
  /\ cache[CacheKey(last.r.token)] = Absent

\* Caller c's get is in progress.
GetRunning(c) == call[c].op = "get" /\ call[c].pc # "idle"

\* C22: every get that has been called completes, with a record or with an
\* error, when every database operation completes, promises settle,
\* suspended calls resume and the clock advances.
C22_GetCompletes ==
  \A c \in Callers :
    GetRunning(c) ~>
      ( /\ GetDone /\ last.who = c
        /\ last.r.result.kind \in {"record", "error"} )

\* C22 witness: a get has completed after calling itself again twice.
C22_Witness ==
  GetDone /\ last.r.retries = 2 /\ ~last.r.alone

\* Caller c's upsert was called with ttl absent or negative.
BadTtlUpsert(c) ==
  /\ call[c].op = "upsert" /\ call[c].pc # "idle"
  /\ (~call[c].hasTtl \/ call[c].ttl < 0)

\* C23 as stated: no step of an upsert called with ttl absent or negative
\* changes the store or the cache, such an upsert ends with an
\* invalid-argument error, and the store never holds an expires computed
\* from an absent ttl.
C23_BadTtlRejected ==
  /\ [](\A t \in Tokens : store[t].present => store[t].expires # InvalidDate)
  /\ [][\A c \in Callers :
          (BadTtlUpsert(c) /\ call'[c] # call[c]) =>
            /\ store' = store /\ cache' = cache
            /\ call'[c].pc = "idle" =>
                 /\ last'.who = c /\ last'.r.result.kind = "error"
                 /\ last'.r.result.name \in InvalidArgumentNames]_vars

\* C24 as stated: with a store that does not fail and entries addressed by
\* tokenizedId, a get completes only with a record that is not expired or
\* with NotFound.
C24_RecordOrNotFound ==
  GetDone =>
    \/ GotRecord /\ last.r.result.rec.expires >= last.r.result.now
    \/ GetFailed("NotFoundError")

\* The call of caller c ends with an error in this step.
FailsNow(c) ==
  /\ call[c].pc # "idle" /\ call'[c].pc = "idle"
  /\ last'.who = c /\ last'.r.result.kind = "error"

\* C25: an upsert whose updateOne fails ends in that step with the store's
\* error, and the step changes neither the store nor any cache slot nor
\* any fetch, the slot of its key included; a call whose tokenization
\* fails on the key provider (getCurrent or hmac.sign rejecting) ends with
\* the provider's error, and none of its steps, from its call to its end,
\* changes the store, the cache or any fetch.
C25_FailuresLeaveStateAlone ==
  /\ [][\A c \in Callers :
          /\ (FailsNow(c) /\ call[c].pc = "update") =>
               /\ call[c].op = "upsert"
               /\ last'.r.result.name = "StoreFailure"
               /\ store' = store /\ cache' = cache /\ fetches' = fetches
               /\ lastWrite' = lastWrite
               /\ last'.r.slotAfter = cache[CacheKey(call[c].token)].p
          /\ (FailsNow(c) /\ call[c].pc \in {"tokenize", "sign"}) =>
               /\ store' = store /\ cache' = cache /\ fetches' = fetches
               /\ lastWrite' = lastWrite
          /\ ( /\ call[c].pc \in {"idle", "tokenize"}
               /\ call'[c].pc \in {"tokenize", "sign"}
               /\ call'[c].pc # call[c].pc ) =>
               /\ store' = store /\ cache' = cache /\ fetches' = fetches
               /\ lastWrite' = lastWrite
          /\ FailsNow(c) =>
               last'.r.result.name \in
                 (IF call[c].pc \in {"update"} THEN {"StoreFailure"}
                  ELSE IF call[c].pc = "tokenize" THEN {"KeyProviderFailure"}
                  ELSE IF call[c].pc = "sign" THEN {"SignFailure"}
                  ELSE {"StoreFailure", "NotFoundError", "TypeError"}
                       \cup InvalidArgumentNames)]_vars
  /\ [](\A c \in Callers :
          call[c].pc \in {"tokenize", "sign"} =>
            (call[c].p = NoFetch /\ ~call[c].rec.present))

\* C25 witness: an upsert has just failed on the store while the slot of
\* its key held a promise, which is still there.
C25_Witness ==
  /\ last.who # "" /\ last.r.op = "upsert"
  /\ last.r.result.kind = "error" /\ last.r.result.name = "StoreFailure"
  /\ last.r.slotAfter # NoFetch
  /\ cache[CacheKey(last.r.token)].p = last.r.slotAfter

====
